---- MODULE Spec2Model ----
(***************************************************************************)
(* concurrency::ThreadPool (condition-variable implementation whose stop() *)
(* clears alive_ under guardian_): a pool of threads_count_ workers        *)
(* running spin(), one controlling thread calling start(), stop(),         *)
(* joinAll() and waitForIdle() one after the other (threads_pool_ is not   *)
(* guarded, so these calls are not made concurrently), and one submitting  *)
(* thread calling addTask() and clear() at any time.                       *)
(***************************************************************************)
EXTENDS Naturals, Sequences, FiniteSets

(* ----------------------------- bounds --------------------------------- *)

\* The constructor's argument threads_count.
NThreads == 2

\* How many addTask() calls the submitting thread makes; tasks are 1..MaxTasks.
MaxTasks == 2

Tasks == 1..MaxTasks

\* Thread identities. start() takes the lowest free ones; twice the configured
\* count leaves room for a second set of threads beside an unjoined first one.
Workers == 1..(2 * NThreads)

NoTask == 0
Free == 0

\* The identity of the controlling thread as an owner of guardian_.
Controller == 2 * NThreads + 1

\* std::size_t arithmetic of running_tasks_count_ (wraps on overflow; the width
\* is shortened so that the wrapped values stay small integers).
SizeWidth == 2 ^ 8

VARIABLES
    alive_,                 \* std::atomic<bool> alive_
    tasks_pool_,            \* std::queue<Task*> tasks_pool_
    threads_pool_,          \* std::vector<std::thread> threads_pool_
    running_tasks_count_,   \* std::atomic<std::size_t> running_tasks_count_
    guardian_,              \* std::mutex guardian_: Free or the worker that owns it
    thread_spin_cv_,        \* workers blocked in thread_spin_cv_.wait()
    pc,                     \* each worker's position in spin()
    task,                   \* each worker's local Task * task
    cpc,                    \* the controlling thread's position
    sp,                     \* the argument of stop(sp), from its call to the next call
    i,                      \* start()'s loop index
    lastOp,                 \* the operation just returned from, until the next call
    nextTask,               \* the next task addTask() is called with
    claims,                 \* per task: how many times a worker dequeued it
    runs,                   \* per task: how many times run() was called on it
    done,                   \* tasks whose run() has returned
    cleared,                \* tasks swapped out of the queue by clear()
    old,                    \* workers that were created before the latest alive_ = true
    wfiAdded,               \* tasks added before waitForIdle() was called, until the next call
    ub,                     \* front()/pop() was called on an empty queue
    writeOwner,             \* who owned guardian_ at the latest write of alive_
    snap                    \* waitForIdle(): since the is_pending() of the current
                            \* check read an empty queue, the queue was empty and the
                            \* running count 0 at one instant

vars == <<alive_, tasks_pool_, threads_pool_, running_tasks_count_, guardian_,
          thread_spin_cv_, pc, task, cpc, sp, i, lastOp, nextTask, claims, runs,
          done, cleared, old, wfiAdded, ub, writeOwner, snap>>

workerVars == <<pc, task>>
ghostVars == <<claims, runs, done, cleared, old, ub, writeOwner>>
clientVars == <<sp, lastOp, wfiAdded>>

(* --------------------------- helpers ---------------------------------- *)

Range(q) == {q[k] : k \in 1..Len(q)}

\* ++running_tasks_count_ and --running_tasks_count_ on std::size_t.
IncBug(n) == n
Inc(n) == (n + 1) % SizeWidth
DecBug(n) == n
Dec(n) == (n + SizeWidth - 1) % SizeWidth

\* std::condition_variable::notify_one(): the wait sets it may leave.
NotifyOneBug(cv) == {cv}
NotifyOne(cv) == IF cv = {} THEN {cv} ELSE {cv \ {w} : w \in cv}

\* std::condition_variable::notify_all() as stop() calls it.
NotifyAllBug(cv) == NotifyOne(cv)
NotifyAll(cv) == {{}}

\* The wait predicate [&](){return !alive_ || !tasks_pool_.empty();}.
WaitPredicate(alive, q) == ~alive \/ q # <<>>

\* tasks_pool_.front() and tasks_pool_.pop() on a non-empty queue.
FrontBug(q) == q[Len(q)]
Front(q) == Head(q)
PopBug(q) == q
Pop(q) == Tail(q)

\* clear(): the queue after tasks_pool_.swap(tmp) with an empty tmp.
SwapBug(q) == IF q = <<>> THEN q ELSE Tail(q)
Swap(q) == <<>>

\* stop(): the lock_guard on guardian_ is taken before alive_ = false.
StopAcquiresBug(g) == TRUE
StopAcquires(g) == g = Free

\* stop(): if(sp == SYNC && !threads_pool_.empty()).
StopCleansBug(policy, tp) == FALSE
StopCleans(policy, tp) == policy = "SYNC" /\ tp # <<>>

\* joinAll(): if(!alive_ && !threads_pool_.empty()).
JoinAllCleansBug(alive, tp) == FALSE
JoinAllCleans(alive, tp) == ~alive /\ tp # <<>>

\* start(): if(!alive_) around everything start() does.
StartActsBug(alive) == TRUE
StartActs(alive) == ~alive

\* start(): if(!threads_pool_.empty()) inside if(!alive_).
StartCleansBug(tp) == FALSE
StartCleans(tp) == tp # <<>>

\* spin(): if(alive_) after the wait decides whether a task is dequeued.
DequeueTestBug(alive, q) == q # <<>>
DequeueTest(alive, q) == alive

\* start(): the loop condition i < threads_count_.
LoopContinuesBug(k) == k + 1 < NThreads
LoopContinues(k) == k < NThreads

\* is_pending(): return !tasks_pool_.empty();
is_pendingBug(q) == q = <<>>
is_pending(q) == q # <<>>

\* The queue q is empty and the running count n is 0.
Snapshot(q, n) == q = <<>> /\ n = 0

\* The lowest thread identity not in use.
FreshWorker == CHOOSE w \in Workers : pc[w] = "none" /\ \A v \in Workers : pc[v] = "none" => w <= v

\* What a step that leaves the queue q and the running count n adds to snap:
\* while waitForIdle() is between its two reads, an instant with both idle.
Observe(q, n) == snap \/ (cpc = "wfi_running" /\ Snapshot(q, n))

(* ----------------------------- Init ----------------------------------- *)

\* ThreadPool::ThreadPool: alive_(false), running_tasks_count_(0), the
\* containers default-constructed; the constructing thread is the only one
\* that can reach the object.
Init ==
    /\ alive_ = FALSE
    /\ tasks_pool_ = <<>>
    /\ threads_pool_ = <<>>
    /\ running_tasks_count_ = 0
    /\ guardian_ = Free
    /\ thread_spin_cv_ = {}
    /\ pc = [w \in Workers |-> "none"]
    /\ task = [w \in Workers |-> NoTask]
    /\ cpc = "idle"
    /\ sp = "none"
    /\ i = 0
    /\ lastOp = "none"
    /\ nextTask = 1
    /\ claims = [t \in Tasks |-> 0]
    /\ runs = [t \in Tasks |-> 0]
    /\ done = {}
    /\ cleared = {}
    /\ old = {}
    /\ wfiAdded = 0
    /\ ub = FALSE
    /\ writeOwner = Controller
    /\ snap = FALSE

(* ------------------------ spin(): one worker -------------------------- *)

\* while(alive_)
SpinWhile(w) ==
    /\ pc[w] = "while"
    /\ pc' = [pc EXCEPT ![w] = IF alive_ THEN "lock" ELSE "exited"]
    /\ UNCHANGED <<alive_, tasks_pool_, threads_pool_, running_tasks_count_, guardian_,
                   thread_spin_cv_, task, cpc, i, clientVars, nextTask, ghostVars, snap>>

\* std::unique_lock<std::mutex> lk(guardian_)
SpinLock(w) ==
    /\ pc[w] = "lock"
    /\ guardian_ = Free
    /\ guardian_' = w
    /\ pc' = [pc EXCEPT ![w] = "pred"]
    /\ UNCHANGED <<alive_, tasks_pool_, threads_pool_, running_tasks_count_,
                   thread_spin_cv_, task, cpc, i, clientVars, nextTask, ghostVars, snap>>

\* thread_spin_cv_.wait(lk, pred): with the lock held, evaluate the predicate;
\* if it is false, release the lock and block, in one atomic step.
SpinWait(w) ==
    /\ pc[w] = "pred"
    /\ IF WaitPredicate(alive_, tasks_pool_)
       THEN /\ pc' = [pc EXCEPT ![w] = "test"]
            /\ UNCHANGED <<guardian_, thread_spin_cv_>>
       ELSE /\ pc' = [pc EXCEPT ![w] = "waiting"]
            /\ guardian_' = Free
            /\ thread_spin_cv_' = thread_spin_cv_ \cup {w}
    /\ UNCHANGED <<alive_, tasks_pool_, threads_pool_, running_tasks_count_,
                   task, cpc, i, clientVars, nextTask, ghostVars, snap>>

\* wait(): an unblocked worker takes the lock again before it evaluates the
\* predicate again.
SpinWake(w) ==
    /\ pc[w] = "waiting"
    /\ w \notin thread_spin_cv_
    /\ guardian_ = Free
    /\ guardian_' = w
    /\ pc' = [pc EXCEPT ![w] = "pred"]
    /\ UNCHANGED <<alive_, tasks_pool_, threads_pool_, running_tasks_count_,
                   thread_spin_cv_, task, cpc, i, clientVars, nextTask, ghostVars, snap>>

\* wait(): a condition variable may unblock a waiter without a notification.
SpuriousWake(w) ==
    /\ pc[w] = "waiting"
    /\ w \in thread_spin_cv_
    /\ thread_spin_cv_' = thread_spin_cv_ \ {w}
    /\ UNCHANGED <<alive_, tasks_pool_, threads_pool_, running_tasks_count_, guardian_,
                   workerVars, cpc, i, clientVars, nextTask, ghostVars, snap>>

\* if(alive_) after the wait; when it is false the unique_lock's destructor
\* releases the lock at the end of the loop body.
SpinTest(w) ==
    /\ pc[w] = "test"
    /\ IF DequeueTest(alive_, tasks_pool_)
       THEN /\ pc' = [pc EXCEPT ![w] = "deq"]
            /\ UNCHANGED guardian_
       ELSE /\ pc' = [pc EXCEPT ![w] = "while"]
            /\ guardian_' = Free
    /\ UNCHANGED <<alive_, tasks_pool_, threads_pool_, running_tasks_count_,
                   thread_spin_cv_, task, cpc, i, clientVars, nextTask, ghostVars, snap>>

\* task = tasks_pool_.front(); tasks_pool_.pop(); lk.unlock();
\* On an empty queue both calls are undefined: the pointer read is any task
\* and the queue is left empty.
SpinDequeue(w) ==
    /\ pc[w] = "deq"
    /\ \E t \in (IF tasks_pool_ # <<>> THEN {Front(tasks_pool_)} ELSE Tasks) :
          /\ task' = [task EXCEPT ![w] = t]
          /\ claims' = [claims EXCEPT ![t] = @ + 1]
    /\ tasks_pool_' = IF tasks_pool_ # <<>> THEN Pop(tasks_pool_) ELSE <<>>
    /\ ub' = (ub \/ tasks_pool_ = <<>>)
    /\ guardian_' = Free
    /\ pc' = [pc EXCEPT ![w] = "inc"]
    /\ UNCHANGED <<alive_, threads_pool_, running_tasks_count_, thread_spin_cv_,
                   cpc, i, clientVars, nextTask, runs, done, cleared, old, writeOwner>>
    /\ snap' = Observe(tasks_pool_', running_tasks_count_')

\* ++running_tasks_count_; and the call of task->run()
SpinInc(w) ==
    /\ pc[w] = "inc"
    /\ running_tasks_count_' = Inc(running_tasks_count_)
    /\ runs' = [runs EXCEPT ![task[w]] = @ + 1]
    /\ pc' = [pc EXCEPT ![w] = "run"]
    /\ UNCHANGED <<alive_, tasks_pool_, threads_pool_, guardian_, thread_spin_cv_,
                   task, cpc, i, clientVars, nextTask, claims, done, cleared, old, ub, writeOwner, snap>>

\* task->run() returns
SpinRun(w) ==
    /\ pc[w] = "run"
    /\ done' = done \cup {task[w]}
    /\ pc' = [pc EXCEPT ![w] = "dec"]
    /\ UNCHANGED <<alive_, tasks_pool_, threads_pool_, running_tasks_count_, guardian_,
                   thread_spin_cv_, task, cpc, i, clientVars, nextTask, claims, runs,
                   cleared, old, ub, writeOwner, snap>>

\* --running_tasks_count_; the local pointer is not read again before the
\* next assignment of front() to it.
SpinDec(w) ==
    /\ pc[w] = "dec"
    /\ running_tasks_count_' = Dec(running_tasks_count_)
    /\ task' = [task EXCEPT ![w] = NoTask]
    /\ pc' = [pc EXCEPT ![w] = "while"]
    /\ UNCHANGED <<alive_, tasks_pool_, threads_pool_, guardian_, thread_spin_cv_,
                   cpc, i, clientVars, nextTask, ghostVars>>
    /\ snap' = Observe(tasks_pool_', running_tasks_count_')

Spin(w) ==
    \/ SpinWhile(w)
    \/ SpinLock(w)
    \/ SpinWait(w)
    \/ SpinWake(w)
    \/ SpinTest(w)
    \/ SpinDequeue(w)
    \/ SpinInc(w)
    \/ SpinRun(w)
    \/ SpinDec(w)

(* ------------------- the controlling thread's calls ------------------- *)

\* A call begins: what is remembered of the previous call is dropped.
Call(policy, added) ==
    /\ cpc = "idle"
    /\ sp' = policy
    /\ wfiAdded' = added
    /\ snap' = FALSE

\* The call goes on.
Goto(at) ==
    /\ cpc' = at
    /\ lastOp' = "none"

\* The call returns; what it returned from is kept for the properties.
Return(op) ==
    /\ cpc' = "idle"
    /\ lastOp' = op

\* start(): if(!alive_), then if(!threads_pool_.empty()) clean_up().
StartCall ==
    /\ Call("none", 0)
    /\ IF StartActs(alive_)
       THEN Goto(IF StartCleans(threads_pool_) THEN "start_join" ELSE "start_alive")
       ELSE Return("start_noop")
    /\ UNCHANGED <<alive_, tasks_pool_, threads_pool_, running_tasks_count_, guardian_,
                   thread_spin_cv_, workerVars, i, nextTask, ghostVars>>

\* start(): alive_ = true, written without taking guardian_, which stays
\* with whoever owns it; the loop starts at 0.
StartAlive ==
    /\ cpc = "start_alive"
    /\ alive_' = TRUE
    /\ writeOwner' = guardian_
    /\ i' = 0
    /\ old' = {w \in Workers : pc[w] # "none"}
    /\ cpc' = "start_spawn"
    /\ UNCHANGED <<tasks_pool_, threads_pool_, running_tasks_count_, guardian_,
                   thread_spin_cv_, workerVars, clientVars, nextTask, claims, runs,
                   done, cleared, ub, snap>>

\* start(): one round of the loop,
\* threads_pool_.push_back(std::thread(&ThreadPool::spin, this)); the call
\* returns after the last round.
StartSpawn ==
    /\ cpc = "start_spawn"
    /\ LoopContinues(i)
    /\ \E w \in Workers : pc[w] = "none"
    /\ threads_pool_' = Append(threads_pool_, FreshWorker)
    /\ pc' = [pc EXCEPT ![FreshWorker] = "while"]
    /\ IF LoopContinues(i + 1)
       THEN /\ i' = i + 1
            /\ UNCHANGED <<cpc, lastOp>>
       ELSE /\ i' = 0
            /\ Return("start")
    /\ UNCHANGED <<alive_, tasks_pool_, running_tasks_count_, guardian_,
                   thread_spin_cv_, task, sp, wfiAdded, nextTask, ghostVars, snap>>

\* stop(sp): { lock_guard locker(guardian_); alive_ = false; }, the
\* controlling thread owning guardian_ from before the write to after it.
StopCall(policy) ==
    /\ Call(policy, 0)
    /\ StopAcquires(guardian_)
    /\ alive_' = FALSE
    /\ writeOwner' = Controller
    /\ Goto("stop_notify")
    /\ UNCHANGED <<tasks_pool_, threads_pool_, running_tasks_count_, guardian_,
                   thread_spin_cv_, workerVars, i, nextTask, claims, runs, done,
                   cleared, old, ub>>

\* stop(sp): thread_spin_cv_.notify_all(); then
\* if(sp == SYNC && !threads_pool_.empty()) clean_up().
StopNotify ==
    /\ cpc = "stop_notify"
    /\ thread_spin_cv_' \in NotifyAll(thread_spin_cv_)
    /\ IF StopCleans(sp, threads_pool_)
       THEN Goto("stop_join")
       ELSE Return("stop")
    /\ UNCHANGED <<alive_, tasks_pool_, threads_pool_, running_tasks_count_, guardian_,
                   workerVars, sp, wfiAdded, i, nextTask, ghostVars, snap>>

\* joinAll(): if(!alive_ && !threads_pool_.empty()) clean_up().
JoinAllCall ==
    /\ Call("none", 0)
    /\ IF JoinAllCleans(alive_, threads_pool_)
       THEN Goto("join_join")
       ELSE Return("joinAll")
    /\ UNCHANGED <<alive_, tasks_pool_, threads_pool_, running_tasks_count_, guardian_,
                   thread_spin_cv_, workerVars, i, nextTask, ghostVars>>

\* clean_up(): join() every thread of threads_pool_, then threads_pool_.clear().
\* join() returns once the thread has left spin(), so the loop ends when all
\* of them have.
CleanUp ==
    /\ cpc \in {"start_join", "stop_join", "join_join"}
    /\ \A w \in Range(threads_pool_) : pc[w] = "exited"
    /\ pc' = [w \in Workers |-> IF w \in Range(threads_pool_) THEN "none" ELSE pc[w]]
    /\ threads_pool_' = <<>>
    /\ IF cpc = "start_join"
       THEN Goto("start_alive")
       ELSE Return(IF cpc = "stop_join" THEN "stop" ELSE "joinAll")
    /\ UNCHANGED <<alive_, tasks_pool_, running_tasks_count_, guardian_,
                   thread_spin_cv_, task, sp, wfiAdded, i, nextTask, ghostVars, snap>>

\* waitForIdle() is called.
WaitForIdleCall ==
    /\ Call("none", nextTask - 1)
    /\ Goto("wfi_pending")
    /\ UNCHANGED <<alive_, tasks_pool_, threads_pool_, running_tasks_count_, guardian_,
                   thread_spin_cv_, workerVars, i, nextTask, ghostVars>>

\* waitForIdle(): is_pending() under guardian_; when true, yield() and test again.
WaitIsPending ==
    /\ cpc = "wfi_pending"
    /\ guardian_ = Free
    /\ cpc' = IF is_pending(tasks_pool_) THEN "wfi_pending" ELSE "wfi_running"
    /\ snap' = Snapshot(tasks_pool_, running_tasks_count_)
    /\ UNCHANGED <<alive_, tasks_pool_, threads_pool_, running_tasks_count_, guardian_,
                   thread_spin_cv_, workerVars, i, clientVars, nextTask, ghostVars>>

\* waitForIdle(): is_running(), an atomic read without a lock; when true,
\* yield() and test is_pending() again, else return.
WaitIsRunning ==
    /\ cpc = "wfi_running"
    /\ IF running_tasks_count_ # 0
       THEN /\ Goto("wfi_pending")
            /\ snap' = FALSE
       ELSE /\ Return("waitForIdle")
            /\ UNCHANGED snap
    /\ UNCHANGED <<alive_, tasks_pool_, threads_pool_, running_tasks_count_, guardian_,
                   thread_spin_cv_, workerVars, sp, wfiAdded, i, nextTask, ghostVars>>

(* -------------------- the submitting thread's calls ------------------- *)

\* addTask(t): under guardian_, tasks_pool_.push(t); if(alive_) notify_one().
AddTask ==
    /\ nextTask <= MaxTasks
    /\ guardian_ = Free
    /\ tasks_pool_' = Append(tasks_pool_, nextTask)
    /\ nextTask' = nextTask + 1
    /\ thread_spin_cv_' \in (IF alive_ THEN NotifyOne(thread_spin_cv_) ELSE {thread_spin_cv_})
    /\ UNCHANGED <<alive_, threads_pool_, running_tasks_count_, guardian_,
                   workerVars, cpc, i, clientVars, ghostVars, snap>>

\* clear(): under guardian_, tasks_pool_.swap(tmp) with an empty tmp.
Clear ==
    /\ guardian_ = Free
    /\ tasks_pool_' = Swap(tasks_pool_)
    /\ cleared' = cleared \cup Range(tasks_pool_)
    /\ UNCHANGED <<alive_, threads_pool_, running_tasks_count_, guardian_,
                   thread_spin_cv_, workerVars, cpc, i, clientVars, nextTask, claims,
                   runs, done, old, ub, writeOwner>>
    /\ snap' = Observe(tasks_pool_', running_tasks_count_')

(* --------------------------- specification ---------------------------- *)

\* The steps that continue a call of start(), stop() or joinAll().
Continue ==
    \/ StartAlive
    \/ StartSpawn
    \/ StopNotify
    \/ CleanUp

\* The workers, the pool's life cycle and the submissions.
PoolNext ==
    \/ \E w \in Workers : Spin(w)
    \/ \E w \in Workers : SpuriousWake(w)
    \/ StartCall
    \/ \E policy \in {"SYNC", "ASYNC"} : StopCall(policy)
    \/ JoinAllCall
    \/ Continue
    \/ AddTask
    \/ Clear

Next ==
    \/ PoolNext
    \/ WaitForIdleCall
    \/ WaitIsPending
    \/ WaitIsRunning

Spec == Init /\ [][Next]_vars

\* Every thread that can take a step is scheduled; run() returns (SpinRun);
\* nothing obliges the client to call an operation, nor a spurious wake-up
\* to happen. waitForIdle() writes nothing the pool reads (it holds guardian_
\* only inside is_pending()), so the pool's progress is checked without a
\* caller inside it.
FairSpec ==
    /\ Init
    /\ [][PoolNext]_vars
    /\ \A w \in Workers : WF_vars(Spin(w))
    /\ WF_vars(Continue)

\* The pool as waitForIdle() meets it when it is Up or Down with every thread
\* joined: stopped with SYNC only, since stop(ASYNC) leaves live workers in a
\* Down pool until joinAll() or start() has joined them, which gives the
\* pool stop(SYNC) leaves.
IdleNext ==
    \/ \E w \in Workers : Spin(w)
    \/ \E w \in Workers : SpuriousWake(w)
    \/ StartCall
    \/ StopCall("SYNC")
    \/ Continue
    \/ AddTask
    \/ Clear
    \/ WaitForIdleCall
    \/ WaitIsPending
    \/ WaitIsRunning

\* The pool with a caller inside waitForIdle(): the caller's loop is
\* scheduled too, and its lock_guard in is_pending() gets guardian_ when the
\* lock is free again and again (the workers release it after every
\* evaluation of the wait predicate).
IdleFairSpec ==
    /\ Init
    /\ [][IdleNext]_vars
    /\ \A w \in Workers : WF_vars(Spin(w))
    /\ WF_vars(Continue)
    /\ SF_vars(WaitIsPending)
    /\ WF_vars(WaitIsRunning)

(* ---- the implementation whose stop() writes alive_ without the lock ---- *)

\* The earlier condition-variable implementation differs in stop(), which
\* assigns alive_ = false with no lock_guard, and in spin(), which tests
\* !tasks_pool_.empty() after the wait. Its stop() can run between a
\* worker's evaluation of the wait predicate and the worker's blocking, so
\* the two are separate steps here.

\* wait(lk, pred) is while(!pred()) wait(lk): the predicate is evaluated with
\* the lock held.
SpinEval000(w) ==
    /\ pc[w] = "pred"
    /\ pc' = [pc EXCEPT ![w] = IF WaitPredicate(alive_, tasks_pool_) THEN "test" ELSE "block"]
    /\ UNCHANGED <<alive_, tasks_pool_, threads_pool_, running_tasks_count_, guardian_,
                   thread_spin_cv_, task, cpc, i, clientVars, nextTask, ghostVars, snap>>

\* wait(lk): release the lock and block, atomically with respect to
\* notifications.
SpinBlock000(w) ==
    /\ pc[w] = "block"
    /\ guardian_' = Free
    /\ thread_spin_cv_' = thread_spin_cv_ \cup {w}
    /\ pc' = [pc EXCEPT ![w] = "waiting"]
    /\ UNCHANGED <<alive_, tasks_pool_, threads_pool_, running_tasks_count_,
                   task, cpc, i, clientVars, nextTask, ghostVars, snap>>

\* if(!tasks_pool_.empty()) after the wait.
SpinTest000(w) ==
    /\ pc[w] = "test"
    /\ IF tasks_pool_ # <<>>
       THEN /\ pc' = [pc EXCEPT ![w] = "deq"]
            /\ UNCHANGED guardian_
       ELSE /\ pc' = [pc EXCEPT ![w] = "while"]
            /\ guardian_' = Free
    /\ UNCHANGED <<alive_, tasks_pool_, threads_pool_, running_tasks_count_,
                   thread_spin_cv_, task, cpc, i, clientVars, nextTask, ghostVars, snap>>

Spin000(w) ==
    \/ SpinWhile(w)
    \/ SpinLock(w)
    \/ SpinEval000(w)
    \/ SpinBlock000(w)
    \/ SpinWake(w)
    \/ SpinTest000(w)
    \/ SpinDequeue(w)
    \/ SpinInc(w)
    \/ SpinRun(w)
    \/ SpinDec(w)

\* stop(sp): alive_ = false; with no lock taken.
StopCall000(policy) ==
    /\ Call(policy, 0)
    /\ alive_' = FALSE
    /\ writeOwner' = guardian_
    /\ Goto("stop_notify")
    /\ UNCHANGED <<tasks_pool_, threads_pool_, running_tasks_count_, guardian_,
                   thread_spin_cv_, workerVars, i, nextTask, claims, runs, done,
                   cleared, old, ub>>

PoolNext000 ==
    \/ \E w \in Workers : Spin000(w)
    \/ \E w \in Workers : SpuriousWake(w)
    \/ StartCall
    \/ \E policy \in {"SYNC", "ASYNC"} : StopCall000(policy)
    \/ JoinAllCall
    \/ Continue
    \/ AddTask
    \/ Clear

Spec000 == Init /\ [][PoolNext000]_vars

(* ----------------------------- properties ----------------------------- *)

\* Tasks handed to addTask() so far.
Added == 1..(nextTask - 1)

\* Tasks a worker has dequeued and whose run() has not returned.
Claimed == {task[w] : w \in Workers} \ ({NoTask} \cup done)

\* Submitted, not yet completed, not removed by clear().
Outstanding == Added \ (done \cup cleared)

\* Threads that exist: created and not yet joined.
Unjoined == {w \in Workers : pc[w] # "none"}

\* Threads that are executing spin().
Live == {w \in Workers : pc[w] \notin {"none", "exited"}}

\* The controlling thread has just returned from op.
Returned(op) == cpc = "idle" /\ lastOp = op

\* C1: a task queued in an Up pool is eventually executed, unless clear()
\* removes it or stop() is called while it is still queued; run() is called at
\* most once on a task, and exactly once on a task that has finished.
C1_Liveness ==
    /\ [](\A t \in Tasks : runs[t] <= 1 /\ (t \in done => runs[t] = 1))
    /\ \A t \in Tasks :
          (t \in Range(tasks_pool_) /\ alive_) ~>
              (t \in done \/ t \in cleared \/ (t \in Range(tasks_pool_) /\ ~alive_))

\* C1 witness: every task was submitted and executed, none discarded.
C1_Witness == done = Tasks /\ cleared = {} /\ \A t \in Tasks : runs[t] = 1

\* C2: when waitForIdle() returns on an Up pool, every task added before the
\* call and not removed by clear() has finished.
C2_WaitForIdleCompletes ==
    (Returned("waitForIdle") /\ alive_) => \A t \in 1..wfiAdded : t \in done \cup cleared

\* C3: pending() + running() equals the number of outstanding tasks.
C3_CounterConsistency ==
    Len(tasks_pool_) + running_tasks_count_ = Cardinality(Outstanding)

\* C4: no task is dequeued twice, run twice, or held by two workers.
C4_NoDoubleExecution ==
    /\ \A t \in Tasks : claims[t] <= 1 /\ runs[t] <= 1
    /\ \A w1, w2 \in Workers : (w1 # w2 /\ task[w1] # NoTask) => task[w1] # task[w2]

\* C4 witness: two workers run two tasks at the same time.
C4_Witness == \E w1, w2 \in Workers : w1 # w2 /\ pc[w1] = "run" /\ pc[w2] = "run"

\* C5: after stop(SYNC) returns the pool is Down, nothing runs, and no
\* thread exists.
C5_StopSync ==
    (Returned("stop") /\ sp = "SYNC") =>
        /\ ~alive_
        /\ running_tasks_count_ = 0
        /\ Unjoined = {}
        /\ threads_pool_ = <<>>
        /\ Claimed = {}

\* C5 witness: stop(SYNC) returned on a pool that had run a task and still has
\* a pending one.
C5_Witness == Returned("stop") /\ sp = "SYNC" /\ done # {} /\ tasks_pool_ # <<>>

\* C6: a call of stop(SYNC) eventually returns.
C6_StopSyncTerminates ==
    (cpc \in {"stop_notify", "stop_join"} /\ sp = "SYNC") ~> Returned("stop")

\* C6 witness: stop(SYNC) is joining while every worker, unblocked by the
\* notify_all(), has still to leave the wait.
C6_Witness ==
    /\ cpc = "stop_join"
    /\ Cardinality({w \in Workers : pc[w] = "waiting" /\ w \notin thread_spin_cv_}) = NThreads

\* C7: a task swapped out by clear() is never dequeued; clear() leaves the
\* queue empty; a task already dequeued runs to completion.
C7_ClearDiscards ==
    /\ [](\A t \in cleared : claims[t] = 0 /\ runs[t] = 0)
    /\ [][cleared' # cleared => tasks_pool_' = <<>>]_vars
    /\ \A t \in Tasks : (t \in Claimed) ~> (t \in done /\ t \notin cleared)

\* C7 witness: one task was discarded by clear() while another, dequeued
\* before, is running.
C7_Witness == cleared # {} /\ \E w \in Workers : pc[w] = "run"

\* C8: after stop(ASYNC) returns the pool is Down; after a joinAll() on the
\* Down pool returns, no thread exists, nothing runs and every dequeued task
\* has finished.
C8_AsyncReclaim ==
    /\ (Returned("stop") /\ sp = "ASYNC") => ~alive_
    /\ (Returned("joinAll") /\ ~alive_) =>
          /\ Unjoined = {}
          /\ threads_pool_ = <<>>
          /\ running_tasks_count_ = 0
          /\ Claimed = {}

\* C8 witness: joinAll() after stop(ASYNC) is blocked in clean_up() while a
\* task is still running.
C8_Witness ==
    /\ cpc = "join_join"
    /\ \E w \in Workers : pc[w] = "run"

\* C9: no thread created before the latest alive_ = true exists, and at most
\* threads_count_ threads exist.
C9_RestartJoinsFirst ==
    /\ old = {}
    /\ Cardinality(Unjoined) <= NThreads
    /\ cpc = "start_alive" => Unjoined = {}

\* C9 witness: start() called right after stop(ASYNC) is blocked in clean_up()
\* while a worker of the stopped pool is still running a task.
C9_Witness ==
    /\ cpc = "start_join"
    /\ \E w \in Workers : pc[w] = "run"

\* C10: a task is dequeued only while alive_ is true; and once the pool is
\* Down, the tasks dequeued before that all finish, unless start() sets
\* alive_ again first.
C10_NoClaimWhileDown ==
    /\ [][claims' # claims => (alive_ /\ alive_')]_vars
    /\ ~alive_ ~> (alive_ \/ Claimed = {})

\* C10 witness: the pool is Down, the queue is not empty, and a worker has
\* left the wait and is about to test alive_.
C10_Witness == ~alive_ /\ tasks_pool_ # <<>> /\ \E w \in Workers : pc[w] = "test"

\* C11: tasks are claimed in the order of their addTask() calls (the task
\* numbers are that order): in every state, when a task B has been claimed,
\* every task A added before B that clear() did not remove has been claimed
\* too, and the tasks still queued are queued in the order they were added
\* and were all added after every claimed task.
C11_FifoClaiming ==
    /\ \A a \in Tasks, b \in Tasks :
          (a < b /\ claims[b] > 0 /\ a \notin cleared) => claims[a] > 0
    /\ \A k \in 1..Len(tasks_pool_) :
          /\ \A l \in 1..Len(tasks_pool_) : k < l => tasks_pool_[k] < tasks_pool_[l]
          /\ \A t \in Claimed : t < tasks_pool_[k]

\* C11 witness: two workers each hold one of two tasks that were queued
\* together, both claimed before a stop(ASYNC) that has returned.
C11_Witness ==
    /\ cleared = {}
    /\ Returned("stop") /\ sp = "ASYNC"
    /\ \E v \in Workers, w \in Workers :
          /\ task[v] = 1 /\ pc[v] = "inc"
          /\ task[w] = 2 /\ pc[w] = "inc"

\* C12: the steps of start(), stop() and joinAll() leave the queue as it is;
\* while the pool is Down a queued task leaves the queue only through clear(),
\* and without a clear() the queue only grows at its back; a task that is
\* queued when start() has set the pool Up is then executed, unless clear()
\* removes it or the pool is stopped again first.
C12_PendingSurviveStop ==
    /\ [][cpc' # cpc => tasks_pool_' = tasks_pool_]_vars
    /\ [][~alive_ =>
            /\ \A t \in Range(tasks_pool_) : t \in Range(tasks_pool_') \/ t \in cleared'
            /\ cleared' = cleared =>
                  /\ Len(tasks_pool_) <= Len(tasks_pool_')
                  /\ SubSeq(tasks_pool_', 1, Len(tasks_pool_)) = tasks_pool_]_vars
    /\ \A t \in Tasks :
          (t \in Range(tasks_pool_) /\ cpc = "start_spawn") ~>
              (t \in done \/ t \in cleared \/ ~alive_)

\* C12 witness: stop(ASYNC) has returned on a pool that has executed a task
\* and still holds a queued one.
C12_Witness ==
    /\ Returned("stop") /\ sp = "ASYNC"
    /\ done # {}
    /\ tasks_pool_ # <<>>
    /\ Claimed = {}

C14_AllOrNothing ==
    cpc = "idle" => Cardinality(Live) = (IF alive_ THEN NThreads ELSE 0)

\* C14: between the controlling thread's calls, an Up pool has exactly the
\* configured number of live workers, all held in threads_pool_; a Down pool
\* has none once its threads were joined (threads_pool_ empty), and otherwise
\* (after stop(ASYNC)) at most the configured number, all of them still in
\* threads_pool_.
C14_WorkerSet ==
    cpc = "idle" =>
        /\ Live \subseteq Range(threads_pool_)
        /\ Cardinality(Live) <= NThreads
        /\ alive_ => (Cardinality(Live) = NThreads /\ Len(threads_pool_) = NThreads)
        /\ (~alive_ /\ threads_pool_ = <<>>) => Unjoined = {}

\* C14 witness: start() has returned and the configured number of workers
\* is live, one of them blocked in the wait.
C14_Witness ==
    /\ Returned("start")
    /\ alive_
    /\ Cardinality(Live) = NThreads
    /\ \E w \in Live : pc[w] = "waiting"

\* C15: when waitForIdle() has returned, at one instant between the read of
\* is_pending() and the read of is_running() of its last check the queue was
\* empty and the running count was 0.
C15_IdleSnapshot == Returned("waitForIdle") => snap

\* C16: a call of start() on an Up pool returns at once and changes nothing:
\* threads_pool_ keeps its threads_count_ threads, no thread is created or
\* joined or moved, and the queue, alive_, the running count, the lock and
\* the wait set are what they were.
C16_StartIdempotent ==
    [][(alive_ /\ StartCall) =>
          /\ Returned("start_noop")'
          /\ Len(threads_pool_') = NThreads
          /\ UNCHANGED <<alive_, tasks_pool_, threads_pool_, running_tasks_count_,
                         guardian_, thread_spin_cv_, pc, task>>]_vars

\* C16 witness: start() has returned from an Up pool in which one worker is
\* inside run() and a task is queued.
C16_Witness ==
    /\ Returned("start_noop")
    /\ tasks_pool_ # <<>>
    /\ \E w \in Workers : pc[w] = "run"

\* C17 as stated: every write of alive_, in start() as in stop(), is made by
\* a thread that owns guardian_ at the write.
C17_FlagWritesLocked == writeOwner = Controller

\* C17: stop() writes alive_ = false owning guardian_, which it takes when no
\* worker owns it; start() writes alive_ = true without owning guardian_, at
\* a moment when no worker thread exists and none is in the wait.
C17_FlagWriteDiscipline ==
    /\ [][(\E policy \in {"SYNC", "ASYNC"} : StopCall(policy)) =>
              (guardian_ = Free /\ writeOwner' = Controller)]_vars
    /\ [][StartAlive =>
              (writeOwner' = Free /\ Unjoined = {} /\ thread_spin_cv_ = {})]_vars

\* C17 witness: start() has written alive_ = true on a pool that was
\* stopped after it executed a task.
C17_Witness == cpc = "start_spawn" /\ writeOwner = Free /\ done # {}

\* C18: front() and pop() are never called on an empty queue: a worker that
\* has passed if(alive_) finds a task in the queue, and no dequeue so far
\* found it empty.
C18_DequeueNonEmpty ==
    /\ ~ub
    /\ \A w \in Workers : pc[w] = "deq" => tasks_pool_ # <<>>

\* C18 witness: a worker is about to dequeue the only queued task while
\* another worker, unblocked from the wait, is waiting for the lock.
C18_Witness ==
    \E v \in Workers, w \in Workers :
        /\ pc[w] = "deq"
        /\ Len(tasks_pool_) = 1
        /\ pc[v] = "waiting"
        /\ v \notin thread_spin_cv_

\* C19: in the implementation whose stop() writes alive_ without the lock, a
\* worker observes the flag flip and the notify_all() of stop(): once
\* stop(SYNC) has notified and is joining, no worker is blocked in the wait.
C19_NoLostWakeup ==
    (cpc = "stop_join" /\ sp = "SYNC") =>
        \A w \in Workers : ~(pc[w] = "waiting" /\ w \in thread_spin_cv_)

\* C20 as stated: pending() + running() is at most the number of outstanding
\* tasks, and running() is at most the number of workers holding a dequeued
\* task whose run() has not returned.
C20_OneSidedBound ==
    /\ Len(tasks_pool_) + running_tasks_count_ <= Cardinality(Outstanding)
    /\ running_tasks_count_ <=
          Cardinality({w \in Workers : task[w] # NoTask /\ task[w] \notin done})

\* C20: the running count is the number of workers between their increment
\* and their decrement, each of which holds a dequeued task; pending() +
\* running() exceeds the number of outstanding tasks by at most the number of
\* workers whose run() has returned and whose decrement is still to come.
C20_CounterBound ==
    /\ running_tasks_count_ = Cardinality({w \in Workers : pc[w] \in {"run", "dec"}})
    /\ running_tasks_count_ <= Cardinality({w \in Workers : task[w] # NoTask})
    /\ Len(tasks_pool_) + running_tasks_count_ <=
          Cardinality(Outstanding) + Cardinality({w \in Workers : pc[w] = "dec"})

\* C20 witness: run() has returned on the only task, nothing is outstanding,
\* and the worker has not yet decremented the count.
C20_Witness ==
    /\ Outstanding = {}
    /\ running_tasks_count_ = 1
    /\ \E w \in Workers : pc[w] = "dec"

\* C21: a waitForIdle() that is testing is_pending() on a Down pool with no
\* live worker and a queued task stays there, the pool staying as it is, for
\* as long as clear() is not called (start() cannot be: its caller is inside
\* waitForIdle()); a waitForIdle() on an Up pool, where the tasks are
\* finitely many and each run() returns, eventually returns.
C21_WaitForIdleTermination ==
    /\ [][(/\ cpc = "wfi_pending"
           /\ ~alive_
           /\ Live = {}
           /\ tasks_pool_ # <<>>
           /\ cleared' = cleared) =>
              (/\ cpc' = "wfi_pending"
               /\ ~alive_'
               /\ Live' = {}
               /\ tasks_pool_' # <<>>)]_vars
    /\ (cpc \in {"wfi_pending", "wfi_running"} /\ alive_) ~> Returned("waitForIdle")

\* C21 witness: waitForIdle() is looping on a pool that executed a task,
\* was stopped with all its threads joined, and holds a queued task.
C21_Witness ==
    /\ cpc = "wfi_pending"
    /\ ~alive_
    /\ Unjoined = {}
    /\ tasks_pool_ # <<>>
    /\ done # {}

====
